---------------------------- MODULE Spec2Model ----------------------------
(***************************************************************************)
(* Model of the legal-RAG knowledge base of KunDeal/First-Draft:           *)
(*   - recursive_split (src/ingest.py), as a loop machine and as an        *)
(*     operator;                                                           *)
(*   - ingest_documents (src/ingest.py) over a source directory, the       *)
(*     Parent Store and the legal_rag collection;                          *)
(*   - sanitize_metadata, the statute splitters split_gk4_into_articles    *)
(*     and split_gk4_article_children, and ingest_gk_only with its         *)
(*     legal_gk collection (src/ingest.py);                                *)
(*   - the bot's handlers (src/bot.py): handle_message, the resets and     *)
(*     /refresh.                                                           *)
(* Texts are sequences of one-character strings; positions are 0-based as  *)
(* in the Python source, so text[i] of the source is text[i + 1] here.     *)
(***************************************************************************)
EXTENDS Integers, Sequences, FiniteSets, TLC

(***************************************************************************)
(* Bounds of the model.                                                    *)
(***************************************************************************)
\* longest text handed to the splitter machine
MaxLen == 12
\* most separator characters in such a text (the others are the letter "a")
MaxSeps == 2
\* largest target_size handed to the splitter machine
MaxChunk == 10
\* PARENT_CHUNK_SIZE (3000), CHILD_CHUNK_SIZE (800) and CHUNK_OVERLAP (150) of
\* src/ingest.py:23-25, scaled down to the length of the model's file texts
PARENT_CHUNK_SIZE == 10
CHILD_CHUNK_SIZE == 4
CHUNK_OVERLAP == 1
\* most ingest runs started in one behaviour
MaxRuns == 2
\* most changes made to the bytes of the files of the source directory
MaxEdits == 1
\* most text messages the bot receives in one behaviour
MaxRequests == 3
\* most resets the bot handles in one behaviour
MaxResets == 1
\* most lines of a statute text
MaxLines == 4
\* most keys of a metadata record handed to sanitize_metadata on its own
MaxKeys == 2

Max(a, b) == IF a >= b THEN a ELSE b
Min(a, b) == IF a <= b THEN a ELSE b

(***************************************************************************)
(* Python string primitives.                                               *)
(***************************************************************************)
\* text[lo:hi] for 0 <= lo, hi <= len(text)
Slice(text, lo, hi) == SubSeq(text, lo + 1, hi)

\* text.rfind(sep, lo, hi): the highest index i with lo <= i, i + len(sep) <= hi
\* and text[i:i+len(sep)] = sep, or -1
Rfind(text, sep, lo, hi) ==
    LET hits == {i \in lo..(hi - Len(sep)) : Slice(text, i, i + Len(sep)) = sep}
    IN  IF hits = {} THEN -1 ELSE CHOOSE i \in hits : \A j \in hits : j <= i

(***************************************************************************)
(* recursive_split, src/ingest.py:85-110.                                  *)
(***************************************************************************)
\* the separator preference list of line 98
Separators == << <<"\n", "\n">>, <<"\n">>, <<".", " ">>, <<" ">> >>

\* int(chunk_size * 0.2), line 97 (the float product truncates to chunk_size // 5)
SearchSpan(chunk_size) == (2 * chunk_size) \div 10

\* variant of line 92 whose window is one character longer than chunk_size
WindowEndLong(text, chunk_size, start) == Min(start + chunk_size + 1, Len(text))
\* variant of line 92 whose window is half of chunk_size
WindowEndHalf(text, chunk_size, start) == Min(start + (chunk_size \div 2), Len(text))
\* end = min(start + chunk_size, text_len), line 92
WindowEnd(text, chunk_size, start) == Min(start + chunk_size, Len(text))

\* variant of lines 98-102 that splits after the right-most separator of any kind
SplitPointRightmost(text, chunk_size, start, end) ==
    LET search_start == Max(start, end - SearchSpan(chunk_size))
        found == {k \in 1..Len(Separators) :
                     Rfind(text, Separators[k], search_start, end) # -1}
        points == {Rfind(text, Separators[k], search_start, end) + Len(Separators[k]) :
                      k \in found}
    IN  IF found = {} THEN end
        ELSE CHOOSE x \in points : \A y \in points : y <= x

\* lines 96-104: the split point of a window that does not reach the end of text
SplitPoint(text, chunk_size, start, end) ==
    LET search_start == Max(start, end - SearchSpan(chunk_size))
        found == {k \in 1..Len(Separators) :
                     Rfind(text, Separators[k], search_start, end) # -1}
    IN  IF found = {} THEN end
        ELSE LET k == CHOOSE x \in found : \A y \in found : x <= y
             IN  Rfind(text, Separators[k], search_start, end) + Len(Separators[k])

\* variant of lines 106-109 that drops one character after every window
NextStartGap(chunk_size, overlap, start, split_point) ==
    Max(start + 1, split_point + 1)
\* variant of lines 106-109 without the clamp of lines 108-109
NextStartStuck(chunk_size, overlap, start, split_point) ==
    Max(start, split_point - overlap)
\* variant of lines 106-109 that repeats nothing of the previous chunk
NextStartNoOverlap(chunk_size, overlap, start, split_point) ==
    Max(start + 1, split_point)
\* lines 106-109: the start of the next window
NextStart(chunk_size, overlap, start, split_point) ==
    LET next_start == split_point - overlap
    IN  Max(start + 1,
            IF next_start <= start THEN start + chunk_size - overlap ELSE next_start)

\* A chunk is kept as the span [lo, hi) it was cut from; its string is text[lo:hi].
Span(lo, hi) == [lo |-> lo, hi |-> hi]
ChunkText(text, span) == Slice(text, span.lo, span.hi)

\* the while loop of lines 91-109, from window start `start` on
RECURSIVE SplitFrom(_, _, _, _)
SplitFrom(text, chunk_size, overlap, start) ==
    IF start >= Len(text) THEN <<>>
    ELSE LET end == WindowEnd(text, chunk_size, start)
         IN  IF end = Len(text) THEN <<Span(start, Len(text))>>
             ELSE LET split_point == SplitPoint(text, chunk_size, start, end)
                  IN  <<Span(start, split_point)>> \o
                      SplitFrom(text, chunk_size, overlap,
                                NextStart(chunk_size, overlap, start, split_point))

\* recursive_split(text, chunk_size, overlap) as the spans of its chunks
recursive_split(text, chunk_size, overlap) ==
    IF text = <<>> THEN <<>> ELSE SplitFrom(text, chunk_size, overlap, 0)

(***************************************************************************)
(* Python values of a metadata record: None, str, int, bool.               *)
(***************************************************************************)
PyNone == [type |-> "NoneType"]
PyStr(s) == [type |-> "str", val |-> s]
PyInt(n) == [type |-> "int", val |-> n]
PyBool(b) == [type |-> "bool", val |-> b]

(***************************************************************************)
(* File names.  A name is a sequence of tokens, the last one its extension; *)
(* the two phrases is_gk4_filename looks for are one token each.           *)
(***************************************************************************)
NoFile == <<>>
FileA == <<"a", ".docx">>
FileB == <<"b", ".PDF">>
FileC == <<"c", ".txt">>
FileD == <<"d", ".xlsx">>
FileGK == <<"grazhdanskiy kodeks rossiyskoy federatsii", " ", "CHAST CHETVERTAYA", ".docx">>
FileNames == {FileA, FileB, FileC, FileD, FileGK}

\* str.lower(), token by token
LowerToken(tok) ==
    CASE tok = ".PDF" -> ".pdf"
      [] tok = "CHAST CHETVERTAYA" -> "chast chetvertaya"
      [] OTHER -> tok
Lower(filename) == [i \in 1..Len(filename) |-> LowerToken(filename[i])]

\* lower.endswith(ext)
EndsWith(lower, ext) == Len(lower) > 0 /\ lower[Len(lower)] = ext
\* phrase in lower
Contains(lower, phrase) == \E i \in 1..Len(lower) : lower[i] = phrase

\* src/ingest.py:153-155
is_gk4_filename(filename) ==
    LET lower == Lower(filename)
    IN  /\ Contains(lower, "grazhdanskiy kodeks rossiyskoy federatsii")
        /\ Contains(lower, "chast chetvertaya")

\* variant of line 42 that gives every file the same id
get_doc_id_same(filename) == <<"md5", NoFile>>
\* src/ingest.py:41-42: the md5 hex digest of the file name, one digest per name
get_doc_id(filename) == <<"md5", filename>>

\* f"{doc_id}_{part_index}", line 114, and f"{parent_id}_c{c_index}", line 380
ParentId(doc_id, part_index) == <<doc_id, "_", part_index>>
ChildId(parent_id, c_index) == <<parent_id, "_c", c_index>>

(***************************************************************************)
(* File contents.  The bytes of a file are kept as what its extractor      *)
(* returns for them: a text, or NoText when decoding raises (the readers   *)
(* of lines 45-82 catch the error and return None).                        *)
(***************************************************************************)
NoText == <<"<None>">>
TextEmpty == <<>>
TextShort == <<"x", "y", " ", "z">>
TextLong == <<"a", "a", "a", " ", "b", "b", "b", "b", " ", "c", "c", "c", "c", "c">>
TextOther == <<"q", ".", " ", "r", "r", "r", "\n", "s", "s", "s", "s", "s", "s">>
Contents == {NoText, TextEmpty, TextShort, TextLong, TextOther}

\* read_pdf / read_docx / read_excel, lines 45-82: the text, or None
ReadBytes(bytes) == IF bytes = NoText THEN PyNone ELSE PyStr(bytes)

\* variant of lines 350-357 that reads a file of any extension
ExtractTextAny(filename, bytes) == ReadBytes(bytes)
\* lines 350-357: dispatch on the lower-cased extension; text stays None otherwise
ExtractText(filename, bytes) ==
    LET lower == Lower(filename)
    IN  IF EndsWith(lower, ".pdf") THEN ReadBytes(bytes)
        ELSE IF EndsWith(lower, ".docx") THEN ReadBytes(bytes)
        ELSE IF EndsWith(lower, ".xlsx") \/ EndsWith(lower, ".xls") THEN ReadBytes(bytes)
        ELSE PyNone

\* `not text`, line 359
Falsy(text) == text.type = "NoneType" \/ text.val = <<>>

(***************************************************************************)
(* The stores.  The Parent Store maps parent_id to its JSON payload; the   *)
(* collection maps a child id to its metadata and document.                *)
(***************************************************************************)
Put(store, key, value) ==
    [k \in (DOMAIN store) \cup {key} |-> IF k = key THEN value ELSE store[k]]

\* variant of save_parent_to_store that writes nothing
save_parent_skipped(store, doc_id, part_index, text, filename) == store
\* src/ingest.py:113-125
save_parent_to_store(store, doc_id, part_index, text, filename) ==
    Put(store, ParentId(doc_id, part_index),
        [parent_id |-> ParentId(doc_id, part_index), doc_id |-> doc_id,
         part_index |-> part_index, filename |-> filename, text |-> text])

\* keys that ingestion does not write and that exercise the tests of lines 132
\* and 134
OtherKeys == {"is_statute", "is_index", "this_is_it", "reindexed", "counterparts"}
\* k.startswith("is_"), line 132, and "index" in k or "parts" in k, line 134, for
\* these keys and the keys of lines 381-392 and 291-299
KeyStartsWithIs(k) == k \in {"is_statute", "is_index"}
KeyHasIndexOrParts(k) ==
    k \in {"part_index", "total_parts", "is_index", "reindexed", "counterparts"}

\* variant of sanitize_metadata that returns the record as it is
sanitize_nothing(metadata) == metadata
\* src/ingest.py:128-140
sanitize_metadata(metadata) ==
    [k \in DOMAIN metadata |->
        IF metadata[k].type = "NoneType"
        THEN IF KeyStartsWithIs(k) THEN PyBool(FALSE)
             ELSE IF KeyHasIndexOrParts(k) THEN PyInt(-1)
             ELSE PyStr(<<>>)
        ELSE metadata[k]]

\* variant of lines 381-392 whose links do not stop at the first and last parent
ChildMetadataDangling(doc_id, filename, p_index, total_parents, c_text) ==
    [parent_id |-> PyStr(ParentId(doc_id, p_index)),
     doc_id |-> PyStr(doc_id),
     filename |-> PyStr(filename),
     part_index |-> PyInt(p_index),
     total_parts |-> PyInt(total_parents),
     page_content |-> PyStr(c_text),
     prev_parent_id |-> PyStr(ParentId(doc_id, p_index - 1)),
     next_parent_id |-> PyStr(ParentId(doc_id, p_index + 1))]
\* lines 381-392: the metadata of child c_text of parent p_index
ChildMetadata(doc_id, filename, p_index, total_parents, c_text) ==
    [parent_id |-> PyStr(ParentId(doc_id, p_index)),
     doc_id |-> PyStr(doc_id),
     filename |-> PyStr(filename),
     part_index |-> PyInt(p_index),
     total_parts |-> PyInt(total_parents),
     page_content |-> PyStr(c_text),
     prev_parent_id |-> IF p_index > 0 THEN PyStr(ParentId(doc_id, p_index - 1))
                        ELSE PyNone,
     next_parent_id |-> IF p_index < total_parents - 1
                        THEN PyStr(ParentId(doc_id, p_index + 1))
                        ELSE PyNone]

\* variant of lines 324-331 that finds no file name in the collection
ExistingFilesNone(coll) == {}
\* lines 324-331: the file names in the metadata of the collection
ExistingFiles(coll) == {coll[id].metadata.filename.val : id \in DOMAIN coll}

\* variant of line 340 that skips no file
AlreadyIndexedNever(filename, existing_files) == FALSE
\* line 340: the skip decision
AlreadyIndexed(filename, existing_files) == filename \in existing_files

(***************************************************************************)
(* The statute splitters, src/ingest.py:158-190.  In the texts handed to   *)
(* them the word the heading pattern looks for is one character, Statya,   *)
(* and the digits are "1" and "2".                                         *)
(***************************************************************************)
Statya == "Statya"
\* the characters \s and \d match
IsSpace(c) == c \in {" ", "\n"}
IsDigit(c) == c \in {"1", "2"}

\* text[i]
At(text, i) == text[i + 1]

\* the end of the longest run of \s characters, and of [.\d] characters, from i on
SpaceRunEnd(text, i) ==
    CHOOSE j \in i..Len(text) :
        /\ \A k \in i..(j - 1) : IsSpace(At(text, k))
        /\ j = Len(text) \/ ~IsSpace(At(text, j))
NumRunEnd(text, i) ==
    CHOOSE j \in i..Len(text) :
        /\ \A k \in i..(j - 1) : IsDigit(At(text, k)) \/ At(text, k) = "."
        /\ j = Len(text) \/ ~(IsDigit(At(text, j)) \/ At(text, j) = ".")

\* (?m)^ matches at i
AtLineStart(text, i) == i = 0 \/ At(text, i - 1) = "\n"

\* the pattern of line 160 matches at i: ^Statya \s+ \d+[.\d]* \. and the rest of
\* the line, which always matches
HeadingAt(text, i) ==
    /\ i < Len(text)
    /\ AtLineStart(text, i)
    /\ At(text, i) = Statya
    /\ LET k == SpaceRunEnd(text, i + 1)
           e == NumRunEnd(text, k)
       IN  /\ k > i + 1
           /\ k < Len(text)
           /\ IsDigit(At(text, k))
           /\ \E d \in (k + 1)..(e - 1) : At(text, d) = "."

\* match.group(2): the run of [.\d] up to its last "."
HeadingNumber(text, i) ==
    LET k == SpaceRunEnd(text, i + 1)
        e == NumRunEnd(text, k)
        dots == {d \in (k + 1)..(e - 1) : At(text, d) = "."}
    IN  Slice(text, k, CHOOSE d \in dots : \A x \in dots : x <= d)

\* the elements of a set of numbers in ascending order
RECURSIVE Ascending(_)
Ascending(S) ==
    IF S = {} THEN <<>>
    ELSE LET m == CHOOSE x \in S : \A y \in S : x <= y
         IN  <<m>> \o Ascending(S \ {m})

\* match.start() of the matches of pattern.finditer(text), line 161: a match
\* never covers the start of another one
HeadingStarts(text) == Ascending({i \in 0..(Len(text) - 1) : HeadingAt(text, i)})

\* str.strip()
Strip(s) ==
    LET solid == {i \in 1..Len(s) : ~IsSpace(s[i])}
    IN  IF solid = {} THEN <<>>
        ELSE SubSeq(s, CHOOSE i \in solid : \A j \in solid : i <= j,
                       CHOOSE i \in solid : \A j \in solid : j <= i)

\* variant of line 166 in which every unit runs to the end of the text
ArticleEndOfText(text, starts, idx) == Len(text)
\* line 166: the start of the next match, or len(text)
ArticleEnd(text, starts, idx) ==
    IF idx + 1 <= Len(starts) THEN starts[idx + 1] ELSE Len(text)

\* src/ingest.py:158-171, as the (number, body) pairs
split_gk4_into_articles(text) ==
    LET starts == HeadingStarts(text)
    IN  [idx \in 1..Len(starts) |->
            [number |-> HeadingNumber(text, starts[idx]),
             body |-> Strip(Slice(text, starts[idx], ArticleEnd(text, starts, idx)))]]

\* str.splitlines(): the lines between the "\n", without a last empty line
SplitLines(s) ==
    LET nl == Ascending({i \in 1..Len(s) : s[i] = "\n"})
        n == Len(nl)
        line(j) == SubSeq(s, (IF j = 1 THEN 0 ELSE nl[j - 1]) + 1,
                             (IF j <= n THEN nl[j] ELSE Len(s) + 1) - 1)
        count == IF s = <<>> THEN 0
                 ELSE IF s[Len(s)] = "\n" THEN n ELSE n + 1
    IN  [j \in 1..count |-> line(j)]

\* "\n".join(lines)
RECURSIVE Join(_)
Join(lines) ==
    IF lines = <<>> THEN <<>>
    ELSE IF Len(lines) = 1 THEN lines[1]
    ELSE lines[1] \o <<"\n">> \o Join(Tail(lines))

\* \d+(\.\d+)*
IsNumber(s) ==
    /\ Len(s) >= 1
    /\ IsDigit(s[1]) /\ IsDigit(s[Len(s)])
    /\ \A i \in 1..Len(s) : IsDigit(s[i]) \/ s[i] = "."
    /\ \A i \in 1..(Len(s) - 1) : ~(s[i] = "." /\ s[i + 1] = ".")

\* paragraph_re.match(line), lines 178 and 180: ^\s*(\d+(\.\d+)*)\.\s+
ParagraphLine(line) ==
    LET p == SpaceRunEnd(line, 0)
    IN  \E q \in (p + 1)..(Len(line) - 2) :
            /\ IsNumber(Slice(line, p, q))
            /\ At(line, q) = "."
            /\ IsSpace(At(line, q + 1))

\* lines 179-186: the loop over the lines from line i on, and the flush after it
RECURSIVE ChildrenLoop(_, _, _, _)
ChildrenLoop(lines, i, chunks, current) ==
    IF i > Len(lines)
    THEN IF current # <<>> THEN Append(chunks, Strip(Join(current))) ELSE chunks
    ELSE IF ParagraphLine(lines[i]) /\ current # <<>>
         THEN ChildrenLoop(lines, i + 1, Append(chunks, Strip(Join(current))),
                           <<lines[i]>>)
         ELSE ChildrenLoop(lines, i + 1, chunks, Append(current, lines[i]))

\* recursive_split as the strings of its chunks
SplitStrings(text, chunk_size, overlap) ==
    LET spans == recursive_split(text, chunk_size, overlap)
    IN  [i \in 1..Len(spans) |-> ChunkText(text, spans[i])]

NonEmpty(c) == c # <<>>

\* src/ingest.py:174-190
split_gk4_article_children(article_text) ==
    LET chunks == ChildrenLoop(SplitLines(article_text), 1, <<>>, <<>>)
        cleaned == SelectSeq(chunks, NonEmpty)
    IN  IF cleaned = <<>>
        THEN SplitStrings(article_text, CHILD_CHUNK_SIZE, CHUNK_OVERLAP)
        ELSE cleaned

(***************************************************************************)
(* State.                                                                  *)
(***************************************************************************)
VARIABLES
    \* one call of recursive_split, run window by window
    sp_text,      \* argument text
    sp_size,      \* argument chunk_size
    sp_overlap,   \* argument overlap
    sp_start,     \* local start
    sp_chunks,    \* local chunks, as spans
    sp_pc,        \* "call", "loop" or "done"
    \* the knowledge base
    dir,          \* knowledge_base/: file name -> [isfile, bytes]
    doc_store,    \* doc_store/: parent_id -> payload
    collection,   \* the legal_rag collection: child id -> [metadata, document]
    \* the calls of ingest_documents, one per thread that runs it
    run,          \* thread -> its locals and control position
    \* history of the behaviour
    events,       \* the ways runs have ended ("done", "raised", "crashed"), the
                  \* number of changes made to the directory, and whether a run
                  \* has run to its end since the last change
    runs_started, \* ingest runs started so far
    \* the bot
    user_histories, \* chat_id -> reference of the list that is the chat's history
    heap,           \* reference -> content of that list object
    req,            \* message number -> the locals and position of its handler
    received,       \* text messages received so far
    chat_log,       \* chat_id -> the exchanges completed (message numbers) and
                    \* the resets handled ("reset"), in order
    \* the call of ingest_gk_only
    gk_collection,  \* the legal_gk collection: child id -> [metadata, document]
    gk_run,         \* its locals and control position
    \* one call of sanitize_metadata
    md_metadata,    \* argument metadata
    md_clean,       \* local clean
    md_pc,          \* "call" or "done"
    \* the context assembly of one call of handle_message
    ctx             \* its locals and control position

split_vars == <<sp_text, sp_size, sp_overlap, sp_start, sp_chunks, sp_pc>>
kb_vars == <<dir, doc_store, collection>>
ingest_vars == <<run, events, runs_started>>

chat_vars == <<user_histories, heap, req, received, chat_log>>

gk_vars == <<gk_collection, gk_run>>
md_vars == <<md_metadata, md_clean, md_pc>>

ctx_vars == <<ctx>>

vars == <<split_vars, kb_vars, ingest_vars, chat_vars, gk_vars, md_vars, ctx_vars>>

\* the threads that run ingest_documents
Threads == {1, 2}

EmptyMap == [k \in {} |-> 0]

\* the locals of a call that is not running
IdleRun ==
    [pc |-> "idle", existing_files |-> {}, listing |-> {}, filename |-> NoFile,
     text |-> <<>>, parent_chunks |-> <<>>, p_index |-> 0, child_chunks |-> <<>>,
     c_index |-> 0, writes |-> 0, rerun |-> FALSE]

Active(t) == run[t].pc \in {"loop", "parent", "child"}

NoEvents == [ended |-> {}, edits |-> 0, clean |-> FALSE]
\* the history after a run ended in the given way
Ended(kind) ==
    [events EXCEPT !.ended = @ \cup {kind},
                   !.clean = IF kind = "done" THEN TRUE ELSE @]
\* the history after the directory changed
Edited == [events EXCEPT !.edits = @ + 1, !.clean = FALSE]
\* changes made to the directory so far
Edits == events.edits
\* an ingest run has run to its end since the directory last changed
Clean == events.clean

KbEmpty ==
    /\ dir = [f \in {FileA} |-> [isfile |-> TRUE, bytes |-> TextShort]]
    /\ doc_store = EmptyMap
    /\ collection = EmptyMap

IngestIdle ==
    /\ run = [t \in Threads |-> IdleRun]
    /\ events = NoEvents
    /\ runs_started = 0

\* src/bot.py:78-79
HISTORY_LIMIT == 6

Chats == {"chat1", "chat2"}
Requests == 1..MaxRequests

NoRef == <<"none">>
\* the locals of a handler that has not started
NoRequest == [pc |-> "none", chat_id |-> "", history |-> NoRef]

\* the bot has just started: user_histories = {} (line 78)
ChatIdle ==
    /\ user_histories = EmptyMap
    /\ heap = EmptyMap
    /\ req = [r \in Requests |-> NoRequest]
    /\ received = 0
    /\ chat_log = [c \in Chats |-> <<>>]

\* the locals of a call of ingest_gk_only that is not running
IdleGkRun ==
    [pc |-> "idle", existing_files |-> {}, listing |-> {}, filename |-> NoFile,
     text |-> <<>>, articles |-> <<>>, parent_chunks |-> <<>>, p_index |-> 0,
     child_chunks |-> <<>>, c_index |-> 0]

\* ingest_gk_only was never called
GkIdle ==
    /\ gk_collection = EmptyMap
    /\ gk_run = IdleGkRun

\* no call of sanitize_metadata outside the ingest runs, no context being
\* assembled
IdleCtx ==
    [pc |-> "idle", results |-> <<>>, i |-> 0, case_number |-> <<>>,
     context_parts |-> <<>>, context_str |-> <<>>]
MdIdle ==
    /\ md_metadata = EmptyMap
    /\ md_clean = EmptyMap
    /\ md_pc = "done"
    /\ ctx = IdleCtx

(***************************************************************************)
(* The splitter machine: one call of recursive_split on a bounded input.   *)
(***************************************************************************)
SepChars == {" ", "\n", "."}

\* texts of n characters, at most MaxSeps of them separator characters
TextsOfLen(n) ==
    UNION {
        { [i \in 1..n |-> IF i \in P THEN g[i] ELSE "a"] : g \in [P -> SepChars] }
        : P \in {Q \in SUBSET (1..n) : Cardinality(Q) <= MaxSeps} }

SplitTexts == UNION {TextsOfLen(n) : n \in 0..MaxLen}

SplitSizes == {1, 2, 5, MaxChunk}

SplitOverlaps(chunk_size) ==
    {o \in {0, 1, 2, chunk_size - 2, chunk_size - 1, chunk_size, chunk_size + 1} :
        o >= 0}

SplitIdle ==
    /\ sp_text = <<>>
    /\ sp_size = 1
    /\ sp_overlap = 0
    /\ sp_start = 0
    /\ sp_chunks = <<>>
    /\ sp_pc = "done"

InitSplit ==
    /\ sp_text \in SplitTexts
    /\ sp_size \in SplitSizes
    /\ sp_overlap \in SplitOverlaps(sp_size)
    /\ sp_start = 0
    /\ sp_chunks = <<>>
    /\ sp_pc = "call"
    /\ KbEmpty
    /\ IngestIdle
    /\ ChatIdle
    /\ GkIdle
    /\ MdIdle

\* lines 86-90: the empty text returns [] at once
SplitEnter ==
    /\ sp_pc = "call"
    /\ sp_pc' = IF sp_text = <<>> THEN "done" ELSE "loop"
    /\ UNCHANGED <<sp_text, sp_size, sp_overlap, sp_start, sp_chunks>>
    /\ UNCHANGED <<kb_vars, ingest_vars, chat_vars, gk_vars, md_vars, ctx_vars>>

\* lines 91-109: one evaluation of the loop condition and, when it holds, one window
SplitWindow ==
    /\ sp_pc = "loop"
    /\ IF sp_start < Len(sp_text)
       THEN LET end == WindowEnd(sp_text, sp_size, sp_start)
            IN  IF end = Len(sp_text)
                THEN /\ sp_chunks' = Append(sp_chunks, Span(sp_start, Len(sp_text)))
                     /\ sp_pc' = "done"
                     /\ UNCHANGED sp_start
                ELSE LET split_point == SplitPoint(sp_text, sp_size, sp_start, end)
                     IN  /\ sp_chunks' = Append(sp_chunks, Span(sp_start, split_point))
                         /\ sp_start' = NextStart(sp_size, sp_overlap, sp_start, split_point)
                         /\ sp_pc' = "loop"
       ELSE /\ sp_pc' = "done"
            /\ UNCHANGED <<sp_start, sp_chunks>>
    /\ UNCHANGED <<sp_text, sp_size, sp_overlap>>
    /\ UNCHANGED <<kb_vars, ingest_vars, chat_vars, gk_vars, md_vars, ctx_vars>>

NextSplit == SplitEnter \/ SplitWindow

SpecSplit == InitSplit /\ [][NextSplit]_vars

(***************************************************************************)
(* ingest_documents, src/ingest.py:315-408, one step per file taken from   *)
(* the listing, per parent saved and per child inserted.                   *)
(***************************************************************************)
\* the source directory: two documents, an unsupported file, a sub-directory and
\* the statute file; the collection and the Parent Store start empty
InitKb ==
    /\ \E bytesB \in {NoText, TextEmpty, TextShort} :
          dir = [f \in FileNames |->
                    [isfile |-> f # FileD,
                     bytes |-> IF f = FileA THEN TextLong
                               ELSE IF f = FileB THEN bytesB
                               ELSE TextShort]]
    /\ doc_store = EmptyMap
    /\ collection = EmptyMap

\* lines 316-335: read the indexed file names, list the directory. The directory
\* exists, the embedding model loads and collection.get succeeds.
StartIngest(t) ==
    /\ ~Active(t)
    /\ runs_started < MaxRuns
    /\ run' = [run EXCEPT ![t] =
                  [IdleRun EXCEPT !.pc = "loop",
                                  !.existing_files = ExistingFiles(collection),
                                  !.listing = DOMAIN dir,
                                  !.rerun = Clean]]
    /\ runs_started' = runs_started + 1
    /\ UNCHANGED <<kb_vars, events, split_vars, chat_vars, gk_vars, md_vars, ctx_vars>>

\* lines 335-367: take the next file name of the listing (in any order) and either
\* skip it or split its text into parent chunks
NextFile(t) ==
    /\ run[t].pc = "loop"
    /\ \E filename \in run[t].listing :
          LET rest == run[t].listing \ {filename}
              skip == [run EXCEPT ![t].listing = rest]
              text == ExtractText(filename, dir[filename].bytes)
          IN  IF is_gk4_filename(filename) THEN run' = skip
              ELSE IF AlreadyIndexed(filename, run[t].existing_files) THEN run' = skip
              ELSE IF ~(filename \in DOMAIN dir /\ dir[filename].isfile) THEN run' = skip
              ELSE IF Falsy(text) THEN run' = skip
              ELSE run' = [run EXCEPT
                              ![t].listing = rest,
                              ![t].filename = filename,
                              ![t].text = text.val,
                              ![t].parent_chunks =
                                  recursive_split(text.val, PARENT_CHUNK_SIZE, CHUNK_OVERLAP),
                              ![t].p_index = 0,
                              ![t].pc = "parent"]
    /\ UNCHANGED <<kb_vars, events, runs_started, split_vars, chat_vars, gk_vars, md_vars, ctx_vars>>

\* the text of the parent chunk being processed
ParentText(r) == ChunkText(r.text, r.parent_chunks[r.p_index + 1])

\* the locals after the children of parent p_index are done: the next parent, or
\* the next file (lines 371, 403-406)
AfterParent(r) ==
    IF r.p_index + 1 < Len(r.parent_chunks)
    THEN [r EXCEPT !.p_index = r.p_index + 1, !.child_chunks = <<>>, !.c_index = 0,
                   !.pc = "parent"]
    ELSE [r EXCEPT !.filename = NoFile, !.text = <<>>, !.parent_chunks = <<>>,
                   !.p_index = 0, !.child_chunks = <<>>, !.c_index = 0, !.pc = "loop"]

\* lines 372-377: persist the parent, split it into child chunks
SaveParent(t) ==
    /\ run[t].pc = "parent"
    /\ LET r == run[t]
           child_chunks == recursive_split(ParentText(r), CHILD_CHUNK_SIZE, CHUNK_OVERLAP)
           saved == [r EXCEPT !.child_chunks = child_chunks, !.c_index = 0,
                              !.writes = r.writes + 1, !.pc = "child"]
       IN  /\ doc_store' = save_parent_to_store(doc_store, get_doc_id(r.filename),
                                                r.p_index, ParentText(r), r.filename)
           /\ run' = [run EXCEPT ![t] = IF child_chunks = <<>> THEN AfterParent(saved)
                                        ELSE saved]
    /\ UNCHANGED <<dir, collection, events, runs_started, split_vars, chat_vars, gk_vars, md_vars, ctx_vars>>

\* the id and the record of the child about to be inserted
ChildIdOf(r) == ChildId(ParentId(get_doc_id(r.filename), r.p_index), r.c_index)
ChildRecord(r) ==
    LET c_text == ChunkText(ParentText(r), r.child_chunks[r.c_index + 1])
    IN  [metadata |-> sanitize_metadata(
                          ChildMetadata(get_doc_id(r.filename), r.filename, r.p_index,
                                        Len(r.parent_chunks), c_text)),
         document |-> c_text]

\* the locals after one child: the next child, the next parent or the next file
AfterChild(r) ==
    IF r.c_index + 1 < Len(r.child_chunks)
    THEN [r EXCEPT !.c_index = r.c_index + 1, !.writes = r.writes + 1]
    ELSE AfterParent([r EXCEPT !.writes = r.writes + 1])

\* lines 379-401: sanitize the metadata, embed and insert one child
AddChild(t) ==
    /\ run[t].pc = "child"
    /\ ChildIdOf(run[t]) \notin DOMAIN collection
    /\ collection' = Put(collection, ChildIdOf(run[t]), ChildRecord(run[t]))
    /\ run' = [run EXCEPT ![t] = AfterChild(run[t])]
    /\ UNCHANGED <<dir, doc_store, events, runs_started, split_vars, chat_vars, gk_vars, md_vars, ctx_vars>>

\* line 408: the listing is exhausted, the call returns
EndIngest(t) ==
    /\ run[t].pc = "loop"
    /\ run[t].listing = {}
    /\ run' = [run EXCEPT ![t] = [IdleRun EXCEPT !.pc = "done"]]
    /\ events' = Ended("done")
    /\ UNCHANGED <<kb_vars, runs_started, split_vars, chat_vars, gk_vars, md_vars, ctx_vars>>

\* lines 372, 394, 395: writing the parent file, embedding the child or inserting
\* it raises; nothing in ingest_documents catches it, so the call ends there
RaiseInFile(t) ==
    /\ run[t].pc \in {"parent", "child"}
    /\ run' = [run EXCEPT ![t] = [IdleRun EXCEPT !.pc = "raised",
                                                !.listing = run[t].listing]]
    /\ events' = Ended("raised")
    /\ UNCHANGED <<kb_vars, runs_started, split_vars, chat_vars, gk_vars, md_vars, ctx_vars>>

\* the process running the call is killed
Crash(t) ==
    /\ Active(t)
    /\ run' = [run EXCEPT ![t] = [IdleRun EXCEPT !.pc = "crashed"]]
    /\ events' = Ended("crashed")
    /\ UNCHANGED <<kb_vars, runs_started, split_vars, chat_vars, gk_vars, md_vars, ctx_vars>>

\* between runs, the bytes of a regular file of the directory are replaced
EditFile ==
    /\ \A t \in Threads : ~Active(t)
    /\ Edits < MaxEdits
    /\ \E filename \in {FileA, FileB}, bytes \in Contents :
          /\ filename \in DOMAIN dir
          /\ dir[filename].isfile
          /\ bytes # dir[filename].bytes
          /\ dir' = [dir EXCEPT ![filename].bytes = bytes]
    /\ events' = Edited
    /\ UNCHANGED <<doc_store, collection, run, runs_started, split_vars, chat_vars, gk_vars, md_vars, ctx_vars>>

\* ingest run from the command line: one call at a time
Init == InitKb /\ IngestIdle /\ SplitIdle /\ ChatIdle /\ GkIdle /\ MdIdle

Next ==
    \/ StartIngest(1)
    \/ NextFile(1)
    \/ SaveParent(1)
    \/ AddChild(1)
    \/ EndIngest(1)
    \/ RaiseInFile(1)
    \/ Crash(1)
    \/ EditFile

Spec == Init /\ [][Next]_vars

(***************************************************************************)
(* cleanup_indexed_files, src/cleanup_indexed.py:13-76, run from the       *)
(* command line between two ingest runs.                                   *)
(***************************************************************************)
\* lines 33-44: the file names in the metadata of the legal_rag collection
IndexedFiles(coll) == {coll[id].metadata.filename.val : id \in DOMAIN coll}

\* variant of lines 58-62 that deletes every regular file
CleanupDeletesAll(entry, filename, indexed_files) == entry.isfile
\* lines 58-62: a directory entry is deleted when it is a regular file and its
\* name is among the indexed ones
CleanupDeletes(entry, filename, indexed_files) ==
    entry.isfile /\ filename \in indexed_files

\* lines 13-76: the whole call; os.remove succeeds on every file it is given.
\* The collection and the Parent Store are only read
Cleanup ==
    /\ \A t \in Threads : ~Active(t)
    /\ LET indexed_files == IndexedFiles(collection)
           kept == {f \in DOMAIN dir : ~CleanupDeletes(dir[f], f, indexed_files)}
       IN  dir' = [f \in kept |-> dir[f]]
    /\ UNCHANGED <<doc_store, collection, ingest_vars, split_vars, chat_vars, gk_vars,
                   md_vars, ctx_vars>>

NextCleanup ==
    \/ StartIngest(1)
    \/ NextFile(1)
    \/ SaveParent(1)
    \/ AddChild(1)
    \/ EndIngest(1)
    \/ Crash(1)
    \/ Cleanup

SpecCleanup == Init /\ [][NextCleanup]_vars

(***************************************************************************)
(* /refresh, src/bot.py:170-184: every /refresh command hands one call of  *)
(* ingest_documents to the default executor, whose threads run at the same *)
(* time; the handler catches what the call raises.                         *)
(***************************************************************************)
\* collection.add of an id the collection already holds (line 395): depending on
\* the chromadb release the insert is ignored or raises a duplicate-id error
AddChildDuplicate(t) ==
    /\ run[t].pc = "child"
    /\ ChildIdOf(run[t]) \in DOMAIN collection
    /\ \/ /\ run' = [run EXCEPT ![t] = AfterChild(run[t])]
          /\ UNCHANGED events
       \/ /\ run' = [run EXCEPT ![t] = [IdleRun EXCEPT !.pc = "raised",
                                                       !.listing = run[t].listing]]
          /\ events' = Ended("raised")
    /\ UNCHANGED <<kb_vars, runs_started, split_vars, chat_vars, gk_vars, md_vars, ctx_vars>>

\* a small directory for the runs started by /refresh
InitRefreshKb ==
    /\ dir = [f \in {FileA, FileB, FileC} |->
                 [isfile |-> TRUE, bytes |-> IF f = FileA THEN TextLong ELSE TextShort]]
    /\ doc_store = EmptyMap
    /\ collection = EmptyMap

InitRefresh ==
    InitRefreshKb /\ IngestIdle /\ SplitIdle /\ ChatIdle /\ GkIdle /\ MdIdle

NextRefresh ==
    \E t \in Threads :
        \/ StartIngest(t)
        \/ NextFile(t)
        \/ SaveParent(t)
        \/ AddChild(t)
        \/ AddChildDuplicate(t)
        \/ EndIngest(t)
        \/ RaiseInFile(t)

SpecRefresh == InitRefresh /\ [][NextRefresh]_vars

(***************************************************************************)
(* ingest_gk_only, src/ingest.py:193-312: one call over a directory that   *)
(* holds the statute file and one other document.  It writes the parents   *)
(* to the Parent Store and the children to the legal_gk collection.        *)
(***************************************************************************)
\* the lines the statute texts are made of
LineHeading == <<Statya, " ", "1", ".", " ", "a">>
LineHeadingBare == <<Statya, " ", "2", ".">>
LineNoDot == <<Statya, " ", "1">>
LineParagraph == <<"1", ".", " ", "a">>
LineSubParagraph == <<" ", "1", ".", "2", ".", " ", "a">>
LineNoSpace == <<"1", ".", "a">>
LinePlain == <<"a", "a", " ", "a", "a", "a">>
LineBlank == <<>>
GkLines ==
    {LineHeading, LineHeadingBare, LineNoDot, LineParagraph, LineSubParagraph,
     LineNoSpace, LinePlain, LineBlank}

\* the texts of at most MaxLines of these lines
GkTexts == UNION {{Join(ls) : ls \in [1..n -> GkLines]} : n \in 0..MaxLines}

InitGkKb ==
    /\ \E text \in GkTexts :
          dir = [f \in {FileA, FileGK} |->
                    [isfile |-> TRUE, bytes |-> IF f = FileGK THEN text ELSE TextShort]]
    /\ doc_store = EmptyMap

\* lines 194-211: read the indexed file names of legal_gk, list the directory
GkStart ==
    /\ gk_run.pc = "idle"
    /\ gk_run' = [IdleGkRun EXCEPT !.pc = "loop",
                                   !.existing_files = ExistingFiles(gk_collection),
                                   !.listing = DOMAIN dir]
    /\ UNCHANGED <<gk_collection, kb_vars, ingest_vars, split_vars, chat_vars, md_vars, ctx_vars>>

\* variant of line 248 that yields no parent chunk
GkFallbackNone(text) == <<>>
\* line 248: the parent chunks of a text without article heading
GkFallbackParents(text) == SplitStrings(text, PARENT_CHUNK_SIZE, CHUNK_OVERLAP)

\* lines 213-248 and 280: take the next file name of the listing and either skip
\* it or split its text into articles, or into parent chunks when it has none
GkNextFile ==
    /\ gk_run.pc = "loop"
    /\ \E filename \in gk_run.listing :
          LET rest == gk_run.listing \ {filename}
              skip == [gk_run EXCEPT !.listing = rest]
              text == ExtractText(filename, dir[filename].bytes)
          IN  IF ~is_gk4_filename(filename) THEN gk_run' = skip
              ELSE IF AlreadyIndexed(filename, gk_run.existing_files) THEN gk_run' = skip
              ELSE IF ~(filename \in DOMAIN dir /\ dir[filename].isfile) THEN gk_run' = skip
              ELSE IF Falsy(text) THEN gk_run' = skip
              ELSE LET articles == split_gk4_into_articles(text.val)
                   IN  gk_run' = [gk_run EXCEPT
                          !.listing = rest,
                          !.filename = filename,
                          !.text = text.val,
                          !.articles = articles,
                          !.parent_chunks =
                              IF articles = <<>> THEN GkFallbackParents(text.val)
                              ELSE [i \in 1..Len(articles) |-> articles[i].body],
                          !.p_index = 0,
                          !.pc = IF articles = <<>> /\ GkFallbackParents(text.val) = <<>>
                                 THEN "loop" ELSE "parent"]
    /\ UNCHANGED <<gk_collection, kb_vars, ingest_vars, split_vars, chat_vars, md_vars, ctx_vars>>

\* the locals after the children of parent p_index: the next parent or the next file
GkAfterParent(r) ==
    IF r.p_index + 1 < Len(r.parent_chunks)
    THEN [r EXCEPT !.p_index = r.p_index + 1, !.child_chunks = <<>>, !.c_index = 0,
                   !.pc = "parent"]
    ELSE [r EXCEPT !.filename = NoFile, !.text = <<>>, !.articles = <<>>,
                   !.parent_chunks = <<>>, !.p_index = 0, !.child_chunks = <<>>,
                   !.c_index = 0, !.pc = "loop"]

\* lines 252-255 and 285: the child chunks of parent p_text
GkChildChunks(r, p_text) ==
    IF r.articles = <<>>
    THEN SplitStrings(p_text, CHILD_CHUNK_SIZE, CHUNK_OVERLAP)
    ELSE split_gk4_article_children(p_text)

\* lines 251-255 and 284-285: persist the parent, split it into child chunks
GkSaveParent ==
    /\ gk_run.pc = "parent"
    /\ LET r == gk_run
           p_text == r.parent_chunks[r.p_index + 1]
           saved == [r EXCEPT !.child_chunks = GkChildChunks(r, p_text), !.c_index = 0,
                              !.pc = "child"]
       IN  /\ doc_store' = save_parent_to_store(doc_store, get_doc_id(r.filename),
                                                r.p_index, p_text, r.filename)
           /\ gk_run' = IF saved.child_chunks = <<>> THEN GkAfterParent(saved) ELSE saved
    /\ UNCHANGED <<dir, collection, gk_collection, ingest_vars, split_vars, chat_vars,
                   md_vars, ctx_vars>>

\* lines 258-265 and 291-299: the metadata of child c_text of parent p_index
GkChildMetadata(r, c_text) ==
    LET common ==
            [parent_id |-> PyStr(ParentId(get_doc_id(r.filename), r.p_index)),
             doc_id |-> PyStr(get_doc_id(r.filename)),
             filename |-> PyStr(r.filename),
             part_index |-> PyInt(r.p_index),
             total_parts |-> PyInt(Len(r.parent_chunks)),
             page_content |-> PyStr(c_text)]
    IN  IF r.articles = <<>> THEN common
        ELSE [k \in (DOMAIN common) \cup {"article_number"} |->
                 IF k = "article_number" THEN PyStr(r.articles[r.p_index + 1].number)
                 ELSE common[k]]

\* lines 256-274 and 289-308: sanitize the metadata, embed and insert one child
GkAddChild ==
    /\ gk_run.pc = "child"
    /\ LET r == gk_run
           c_text == r.child_chunks[r.c_index + 1]
           child_id == ChildId(ParentId(get_doc_id(r.filename), r.p_index), r.c_index)
       IN  /\ gk_collection' =
                  Put(gk_collection, child_id,
                      [metadata |-> sanitize_metadata(GkChildMetadata(r, c_text)),
                       document |-> c_text])
           /\ gk_run' = IF r.c_index + 1 < Len(r.child_chunks)
                        THEN [r EXCEPT !.c_index = r.c_index + 1]
                        ELSE GkAfterParent(r)
    /\ UNCHANGED <<kb_vars, ingest_vars, split_vars, chat_vars, md_vars, ctx_vars>>

\* line 312: the listing is exhausted, the call returns
GkEnd ==
    /\ gk_run.pc = "loop"
    /\ gk_run.listing = {}
    /\ gk_run' = [IdleGkRun EXCEPT !.pc = "done"]
    /\ UNCHANGED <<gk_collection, kb_vars, ingest_vars, split_vars, chat_vars, md_vars, ctx_vars>>

InitGk ==
    /\ InitGkKb
    /\ collection = EmptyMap
    /\ GkIdle
    /\ IngestIdle /\ SplitIdle /\ ChatIdle /\ MdIdle

NextGk == GkStart \/ GkNextFile \/ GkSaveParent \/ GkAddChild \/ GkEnd

SpecGk == InitGk /\ [][NextGk]_vars

(***************************************************************************)
(* sanitize_metadata, src/ingest.py:128-140: one call on a bounded record, *)
(* next to an ingest run over a directory with one document.               *)
(***************************************************************************)
MdKeys == {"filename", "part_index", "prev_parent_id"} \cup OtherKeys
MdValues == {PyNone, PyStr(<<"v">>), PyInt(0), PyBool(TRUE)}
MdRecords ==
    UNION {[K -> MdValues] : K \in {Q \in SUBSET MdKeys : Cardinality(Q) <= MaxKeys}}

InitMd ==
    /\ md_metadata \in MdRecords
    /\ md_clean = EmptyMap
    /\ md_pc = "call"
    /\ dir = [f \in {FileA} |-> [isfile |-> TRUE, bytes |-> TextLong]]
    /\ doc_store = EmptyMap
    /\ collection = EmptyMap
    /\ IngestIdle /\ SplitIdle /\ ChatIdle /\ GkIdle
    /\ ctx = IdleCtx

\* lines 129-140: the call returns clean
Sanitize ==
    /\ md_pc = "call"
    /\ md_clean' = sanitize_metadata(md_metadata)
    /\ md_pc' = "done"
    /\ UNCHANGED <<md_metadata, kb_vars, ingest_vars, split_vars, chat_vars, gk_vars,
                   ctx_vars>>

NextMd ==
    \/ Sanitize
    \/ StartIngest(1)
    \/ NextFile(1)
    \/ SaveParent(1)
    \/ AddChild(1)
    \/ EndIngest(1)

SpecMd == InitMd /\ [][NextMd]_vars

(***************************************************************************)
(* The bot's text messages and resets, src/bot.py:145-168, 200-329.  The   *)
(* handlers are coroutines of one event loop: a handler runs alone from    *)
(* one await to the next, and handlers of different updates interleave at  *)
(* the awaits.                                                             *)
(***************************************************************************)
UserEntry(r) == [role |-> "user", content |-> r]
AssistantEntry(r) == [role |-> "assistant", content |-> r]

\* variant of line 311 that drops nothing
LastNAll(list, n) == list
\* history[-HISTORY_LIMIT:], line 311
LastN(list, n) == SubSeq(list, Max(1, Len(list) - n + 1), Len(list))

Pending(r) == req[r].pc \in {"thinking", "awaiting"}

\* the list objects still referenced by the dict or by a suspended handler
Reachable(histories, requests) ==
    {histories[c] : c \in DOMAIN histories} \cup
    {requests[r].history : r \in {x \in Requests : requests[x].pc \in {"thinking", "awaiting"}}}

Collect(objects, histories, requests) ==
    [ref \in (DOMAIN objects) \cap Reachable(histories, requests) |-> objects[ref]]

\* user_histories.get(chat_id), or [] when the chat has no history
HistoryOf(c) == IF c \in DOMAIN user_histories THEN heap[user_histories[c]] ELSE <<>>

\* lines 221-243: a text message arrives.  A greeting or a text of fewer than four
\* characters is answered with the welcome text and nothing else happens;
\* otherwise the handler takes the chat's list (a new empty list when the chat
\* has none) and awaits its "Думаю..." answer
ReceiveMessage ==
    /\ received < MaxRequests
    /\ \E c \in Chats, greeting \in BOOLEAN :
          LET r == received + 1
              ref == IF c \in DOMAIN user_histories THEN user_histories[c]
                     ELSE <<"get", r>>
          IN  IF greeting
              THEN /\ req' = [req EXCEPT ![r] = [NoRequest EXCEPT !.pc = "greeted",
                                                                  !.chat_id = c]]
                   /\ UNCHANGED heap
              ELSE /\ req' = [req EXCEPT ![r] = [pc |-> "thinking", chat_id |-> c,
                                                 history |-> ref]]
                   /\ heap' = IF c \in DOMAIN user_histories THEN heap
                              ELSE Put(heap, ref, <<>>)
    /\ received' = received + 1
    /\ UNCHANGED <<user_histories, chat_log, split_vars, kb_vars, ingest_vars, gk_vars, md_vars, ctx_vars>>

\* lines 245-300: embed the query, query the collection, build the prompt and the
\* message list, and await the completion service
Retrieve(r) ==
    /\ req[r].pc = "thinking"
    /\ req' = [req EXCEPT ![r].pc = "awaiting"]
    /\ UNCHANGED <<user_histories, heap, received, chat_log, split_vars, kb_vars,
                   ingest_vars, gk_vars, md_vars, ctx_vars>>

\* lines 302-313: the completion arrives; append the exchange to the list the
\* handler holds, trim it, and store it as the chat's history
Complete(r) ==
    /\ req[r].pc = "awaiting"
    /\ LET c == req[r].chat_id
           ref == req[r].history
           appended == heap[ref] \o <<UserEntry(r), AssistantEntry(r)>>
           trimmed == Len(appended) > HISTORY_LIMIT
           kept == IF trimmed THEN <<"slice", r>> ELSE ref
           objects == IF trimmed
                      THEN Put(Put(heap, ref, appended), kept,
                               LastN(appended, HISTORY_LIMIT))
                      ELSE Put(heap, ref, appended)
           histories == Put(user_histories, c, kept)
           requests == [req EXCEPT ![r] = [NoRequest EXCEPT !.pc = "done",
                                                            !.chat_id = c]]
       IN  /\ user_histories' = histories
           /\ req' = requests
           /\ heap' = Collect(objects, histories, requests)
           /\ chat_log' = [chat_log EXCEPT
                              ![c] = Append(@, [kind |-> "exchange", msg |-> r])]
    /\ UNCHANGED <<received, split_vars, kb_vars, ingest_vars, gk_vars, md_vars, ctx_vars>>

\* variant of lines 324-329 in which the handler of a failed request also drops
\* the chat's history
RequestFailsForgets(r) ==
    /\ Pending(r)
    /\ LET c == req[r].chat_id
           requests == [req EXCEPT ![r] = [NoRequest EXCEPT
                                              !.pc = IF req[r].pc = "thinking"
                                                     THEN "retrieval_failed"
                                                     ELSE "failed",
                                              !.chat_id = c]]
           histories == [k \in (DOMAIN user_histories) \ {c} |-> user_histories[k]]
       IN  /\ req' = requests
           /\ user_histories' = histories
           /\ heap' = Collect(heap, histories, requests)
    /\ UNCHANGED <<received, chat_log, split_vars, kb_vars, ingest_vars, gk_vars, md_vars, ctx_vars>>

\* lines 324-329: the embedding or the vector query (lines 247-253) or the
\* completion service (lines 294-300) raises; the handler sends its apology and
\* leaves the history as it is.  The request ends as "retrieval_failed" when
\* the error came before the completion call, and as "failed" otherwise
RequestFails(r) ==
    /\ Pending(r)
    /\ LET requests == [req EXCEPT ![r] = [NoRequest EXCEPT
                                              !.pc = IF req[r].pc = "thinking"
                                                     THEN "retrieval_failed"
                                                     ELSE "failed",
                                              !.chat_id = req[r].chat_id]]
       IN  /\ req' = requests
           /\ heap' = Collect(heap, user_histories, requests)
    /\ UNCHANGED <<user_histories, received, chat_log, split_vars, kb_vars, ingest_vars, gk_vars, md_vars, ctx_vars>>

\* resets handled so far
Resets ==
    Cardinality(UNION {{<<c, i>> : i \in {j \in 1..Len(chat_log[c]) :
                                             chat_log[c][j].kind = "reset"}} :
                       c \in Chats})

\* /start, /reset and the reset button, lines 145-168 and 200-217: delete the
\* chat's entry of user_histories when it has one
ResetChat(c) ==
    /\ Resets < MaxResets
    /\ LET histories == [k \in (DOMAIN user_histories) \ {c} |-> user_histories[k]]
       IN  /\ user_histories' = histories
           /\ heap' = Collect(heap, histories, req)
    /\ chat_log' = [chat_log EXCEPT ![c] = Append(@, [kind |-> "reset", msg |-> 0])]
    /\ UNCHANGED <<req, received, split_vars, kb_vars, ingest_vars, gk_vars, md_vars, ctx_vars>>

InitChat == ChatIdle /\ KbEmpty /\ IngestIdle /\ SplitIdle /\ GkIdle /\ MdIdle

NextChat ==
    \/ ReceiveMessage
    \/ \E r \in Requests : Retrieve(r) \/ Complete(r) \/ RequestFails(r)
    \/ \E c \in Chats : ResetChat(c)

SpecChat == InitChat /\ [][NextChat]_vars

\* the entries of the exchanges of a chat's log, in order
RECURSIVE Exchanges(_)
Exchanges(log) ==
    IF log = <<>> THEN <<>>
    ELSE <<UserEntry(log[1].msg), AssistantEntry(log[1].msg)>> \o Exchanges(Tail(log))

\* the bot after three exchanges with chat1, one after the other, numbered -2, -1
\* and 0: the list created for the first of them was appended to three times,
\* never trimmed, and is the chat's history
EarlierLog ==
    <<[kind |-> "exchange", msg |-> -2], [kind |-> "exchange", msg |-> -1],
      [kind |-> "exchange", msg |-> 0]>>
InitChatLong ==
    /\ user_histories = [c \in {"chat1"} |-> <<"get", -2>>]
    /\ heap = [ref \in {<<"get", -2>>} |-> Exchanges(EarlierLog)]
    /\ req = [r \in Requests |-> NoRequest]
    /\ received = 0
    /\ chat_log = [c \in Chats |-> IF c = "chat1" THEN EarlierLog ELSE <<>>]
    /\ KbEmpty /\ IngestIdle /\ SplitIdle /\ GkIdle /\ MdIdle

SpecChatLong == InitChatLong /\ [][NextChat]_vars

(***************************************************************************)
(* The context assembly of handle_message, src/bot.py:255-277, and         *)
(* extract_case_number, src/bot.py:126-143.  A file name is a sequence of  *)
(* characters in which the Cyrillic letter of the pattern is "Acyr" (lower *)
(* case "acyr"), the digits are "1" and "2", and the words "Delo_", the    *)
(* Cyrillic "Delo" and "Case" and an extension are one character each.     *)
(***************************************************************************)
\* str.upper and str.lower, character by character
Upper(s) ==
    LET UpperChar(c) ==
            CASE c = "a" -> "A"
              [] c = "acyr" -> "Acyr"
              [] c = "o" -> "O"
              [] c = "x" -> "X"
              [] c = "Delo_" -> "DELO_"
              [] c = "DeloCyr" -> "DELOCYR"
              [] c = "Case" -> "CASE"
              [] c = ".docx" -> ".DOCX"
              [] c = ".pdf" -> ".PDF"
              [] OTHER -> c
    IN  [k \in 1..Len(s) |-> UpperChar(s[k])]
LowerCase(s) ==
    LET LowerChar(c) ==
            CASE c = "A" -> "a"
              [] c = "Acyr" -> "acyr"
              [] c = "F" -> "f"
              [] c = "Delo_" -> "delo_"
              [] c = "DeloCyr" -> "delocyr"
              [] c = "Case" -> "case"
              [] OTHER -> c
    IN  [k \in 1..Len(s) |-> LowerChar(s[k])]

\* the end of the longest run of \d characters from i on
DigitRunEnd(s, i) ==
    CHOOSE j \in i..Len(s) :
        /\ \A k \in i..(j - 1) : IsDigit(At(s, k))
        /\ j = Len(s) \/ ~IsDigit(At(s, j))

\* line 135: [АA]\d{2}-\d{3,}[-/]\d{2,4} matches at i, under re.IGNORECASE
CaseMatches(s, i) ==
    /\ i + 4 < Len(s)
    /\ At(s, i) \in {"A", "a", "Acyr", "acyr"}
    /\ IsDigit(At(s, i + 1)) /\ IsDigit(At(s, i + 2))
    /\ At(s, i + 3) = "-"
    /\ LET e == DigitRunEnd(s, i + 4)
       IN  /\ e - (i + 4) >= 3
           /\ e < Len(s)
           /\ At(s, e) \in {"-", "/"}
           /\ DigitRunEnd(s, e + 1) - (e + 1) >= 2
\* the end of that match: \d{2,4} takes up to four digits
CaseMatchEnd(s, i) ==
    LET e == DigitRunEnd(s, i + 4)
    IN  Min(DigitRunEnd(s, e + 1), e + 1 + 4)

\* os.path.splitext(filename)[0]: the name up to the last dot of its base name;
\* a base name that starts at that dot keeps it.  The dots of a name are the
\* first characters of its extensions
SplitExtRoot(filename) ==
    LET dots == {k \in 1..Len(filename) : filename[k] \in {".docx", ".pdf"}}
        last == CHOOSE k \in dots : \A j \in dots : j <= k
    IN  IF dots = {} THEN filename
        ELSE IF \/ last = 1
                \/ filename[last - 1] = "/"
                \/ \E j \in (last + 1)..Len(filename) : filename[j] = "/"
        THEN filename
        ELSE SubSeq(filename, 1, last - 1)

\* name.replace("Delo_", "")
RemoveDelo(name) == SelectSeq(name, LAMBDA c : c # "Delo_")

\* lines 126-143
extract_case_number(filename) ==
    LET hits == {i \in 0..(Len(filename) - 1) : CaseMatches(filename, i)}
    IN  IF hits # {}
        THEN LET i == CHOOSE h \in hits : \A g \in hits : h <= g
             IN  Upper(Slice(filename, i, CaseMatchEnd(filename, i)))
        ELSE RemoveDelo(SplitExtRoot(filename))

\* lines 264-267: the label of a source
SourceLabel(case_number) ==
    LET LStrip(s) ==
            LET solid == {k \in 1..Len(s) : ~IsSpace(s[k])}
            IN  IF solid = {} THEN <<>>
                ELSE SubSeq(s, CHOOSE k \in solid : \A j \in solid : k <= j, Len(s))
        head == LStrip(LowerCase(case_number))
    IN  IF head # <<>> /\ head[1] \in {"delocyr", "case"}
        THEN case_number
        ELSE <<"DeloCyr", " ", "No">> \o case_number

\* line 270: one block of the context
ContextChunk(source_label, doc) ==
    <<"SOURCE_ID: [">> \o source_label \o <<"]", "\n", "CONTENT: ">> \o doc

\* line 274: "\n\n---\n\n".join(context_parts)
RECURSIVE JoinParts(_)
JoinParts(parts) ==
    IF parts = <<>> THEN <<>>
    ELSE IF Len(parts) = 1 THEN parts[1]
    ELSE parts[1] \o <<"\n", "\n", "---", "\n", "\n">> \o JoinParts(Tail(parts))

\* variant of lines 276-277 without the substitution
ContextAsIs(context_str) == context_str
\* lines 276-277: an empty context is replaced by the notice
NoDocumentsNotice == <<"no relevant documents">>
ContextOrNotice(context_str) ==
    IF context_str = <<>> THEN NoDocumentsNotice ELSE context_str

\* the file names of the retrieved chunks
CaseFileNames ==
    LET CaseId == <<"1", "2", "-", "1", "1", "1", "-", "2", "1">>
    IN
    { <<"DeloCyr", " ", "No", "Acyr">> \o CaseId \o <<".docx">>,
      <<"x", "_", "a">> \o CaseId \o <<"2", "2", "2", ".pdf">>,
      <<"acyr", "1", "2", "-", "1", "2", "1", "2", "/", "1", "2",
        "_", "A">> \o CaseId,
      <<"A", "1", "2", "-", "1", "1", "-", "2", "1", ".docx">>,
      <<"Delo_", "F", "o", "o", ".docx">>,
      <<"F", "o", "o", "_", "Delo_", "x", ".docx">>,
      <<"F", "o", "o">>,
      <<" ", "DeloCyr", " ", "F", "o", "o", ".docx">>,
      <<"Case", "_", "1", ".pdf">>,
      <<".docx">> }
\* the answers of collection.query: at most MaxResults chunks, in rank order,
\* each a document and the file name of its metadata
MaxResults == 2
QueryResults ==
    UNION {[1..n -> [document : {<<"t", " ", "u">>, <<"u">>}, filename : CaseFileNames]] :
              n \in 0..MaxResults}

InitCtx ==
    /\ \E rs \in QueryResults :
           ctx = [pc |-> "loop", results |-> rs, i |-> 0, case_number |-> <<>>,
                  context_parts |-> <<>>, context_str |-> <<>>]
    /\ md_metadata = EmptyMap /\ md_clean = EmptyMap /\ md_pc = "done"
    /\ KbEmpty /\ IngestIdle /\ SplitIdle /\ ChatIdle /\ GkIdle

\* lines 258-272: one turn of the loop over the retrieved chunks
ContextBlock ==
    /\ ctx.pc = "loop"
    /\ ctx.i < Len(ctx.results)
    /\ LET doc == ctx.results[ctx.i + 1].document
           filename == ctx.results[ctx.i + 1].filename
           case_number == extract_case_number(filename)
           context_chunk == ContextChunk(SourceLabel(case_number), doc)
       IN  ctx' = [ctx EXCEPT !.i = @ + 1,
                              !.case_number = case_number,
                              !.context_parts = Append(@, context_chunk)]
    /\ UNCHANGED <<split_vars, kb_vars, ingest_vars, chat_vars, gk_vars, md_vars>>

\* lines 274-277: the blocks are joined, an empty context is replaced
ContextJoin ==
    /\ ctx.pc = "loop"
    /\ ctx.i = Len(ctx.results)
    /\ ctx' = [ctx EXCEPT !.pc = "done",
                          !.context_str = ContextOrNotice(JoinParts(ctx.context_parts))]
    /\ UNCHANGED <<split_vars, kb_vars, ingest_vars, chat_vars, gk_vars, md_vars>>

NextCtx == ContextBlock \/ ContextJoin

SpecCtx == InitCtx /\ [][NextCtx]_vars

(***************************************************************************)
(* Properties of recursive_split, checked under SpecSplit.                 *)
(***************************************************************************)
\* the chunks of spans[i..], each later one without the prefix it repeats from
\* the chunk before it, concatenated
RECURSIVE Rebuild(_, _, _)
Rebuild(text, spans, i) ==
    IF i > Len(spans) THEN <<>>
    ELSE LET chunk == ChunkText(text, spans[i])
             repeated == IF i = 1 THEN 0 ELSE spans[i - 1].hi - spans[i].lo
         IN  SubSeq(chunk, repeated + 1, Len(chunk)) \o Rebuild(text, spans, i + 1)

\* C6: for 0 < overlap < target_size the returned chunks, with the repeated prefix
\* of each later chunk removed, concatenate to the original text: the first chunk
\* starts at 0, each later chunk starts at or before the end of the previous one,
\* and the last chunk ends at the end of the text.
C6_Reconstructs ==
    (sp_pc = "done" /\ 0 < sp_overlap /\ sp_overlap < sp_size) =>
        LET n == Len(sp_chunks)
        IN  /\ (sp_text = <<>>) <=> (n = 0)
            /\ n > 0 => /\ sp_chunks[1].lo = 0
                        /\ sp_chunks[n].hi = Len(sp_text)
            /\ \A i \in 2..n : /\ sp_chunks[i].lo <= sp_chunks[i - 1].hi
                               /\ sp_chunks[i].hi >= sp_chunks[i - 1].hi
            /\ Rebuild(sp_text, sp_chunks, 1) = sp_text

\* C6 witness: a finished call with 0 < overlap < target_size, three or more
\* chunks, one cut at a separator and one that repeats the end of its predecessor
C6_Witness ==
    /\ sp_pc = "done" /\ 0 < sp_overlap /\ sp_overlap < sp_size
    /\ Len(sp_chunks) >= 3
    /\ \E i \in 1..(Len(sp_chunks) - 1) : sp_chunks[i].hi - sp_chunks[i].lo < sp_size
    /\ \E i \in 2..Len(sp_chunks) : sp_chunks[i].lo < sp_chunks[i - 1].hi

\* C7: every chunk except possibly the last has length at most target_size.
C7_ChunkBound ==
    \A i \in 1..Len(sp_chunks) :
        (sp_pc # "done" \/ i < Len(sp_chunks)) =>
            sp_chunks[i].hi - sp_chunks[i].lo <= sp_size

\* C7 witness: a finished call with a chunk of exactly target_size characters (a
\* hard split) and an earlier-than-last chunk cut short at a separator
C7_Witness ==
    /\ sp_pc = "done"
    /\ \E i, j \in 1..(Len(sp_chunks) - 1) :
          /\ sp_chunks[i].hi - sp_chunks[i].lo = sp_size
          /\ sp_chunks[j].hi - sp_chunks[j].lo < sp_size

\* C8: every window starts strictly after the window before it, for every
\* overlap >= 0 (overlap >= target_size included), so there are at most len(text)
\* windows.
C8_ForwardProgress ==
    /\ \A i \in 2..Len(sp_chunks) : sp_chunks[i].lo > sp_chunks[i - 1].lo
    /\ (sp_pc = "loop" /\ sp_chunks # <<>>) => sp_start > sp_chunks[Len(sp_chunks)].lo
    /\ Len(sp_chunks) <= Len(sp_text)

\* C8 witness: a finished call with overlap >= target_size in which the cursor was
\* clamped to advance by one character
C8_Witness ==
    /\ sp_pc = "done" /\ sp_overlap >= sp_size
    /\ Len(sp_chunks) >= 3
    /\ \E i \in 2..Len(sp_chunks) : sp_chunks[i].lo = sp_chunks[i - 1].lo + 1

\* the characters chunk i + 1 repeats from the end of chunk i
Shared(i) == sp_chunks[i].hi - sp_chunks[i + 1].lo
ChunkLen(i) == sp_chunks[i].hi - sp_chunks[i].lo

\* C18 as claimed: for 0 < overlap < target_size every chunk after the first
\* starts exactly `overlap` characters before the end of the chunk before it.
C18_ExactOverlap ==
    (0 < sp_overlap /\ sp_overlap < sp_size) =>
        \A i \in 1..(Len(sp_chunks) - 1) : Shared(i) = sp_overlap

\* C18 amended: for 0 < overlap < target_size a chunk repeats exactly `overlap`
\* characters of the chunk before it when that chunk is longer than `overlap`,
\* which is always so when overlap <= target_size - int(0.2 * target_size);
\* otherwise it starts target_size - overlap characters after the start of the
\* chunk before it and repeats overlap - (target_size - length of that chunk)
\* characters, fewer than `overlap`.
C18_OverlapAfterLongChunk ==
    (0 < sp_overlap /\ sp_overlap < sp_size) =>
        \A i \in 1..(Len(sp_chunks) - 1) :
            /\ ChunkLen(i) > sp_overlap => Shared(i) = sp_overlap
            /\ ChunkLen(i) <= sp_overlap =>
                  /\ sp_chunks[i + 1].lo = sp_chunks[i].lo + sp_size - sp_overlap
                  /\ Shared(i) = sp_overlap - (sp_size - ChunkLen(i))
                  /\ 0 <= Shared(i) /\ Shared(i) < sp_overlap
            /\ sp_overlap <= sp_size - SearchSpan(sp_size) => ChunkLen(i) > sp_overlap

\* C18 witness: a finished call with 0 < overlap < target_size in which one chunk
\* was cut at a separator no later than `overlap` characters after its start, so
\* that the next chunk repeats fewer than `overlap` characters
C18_Witness ==
    /\ sp_pc = "done" /\ 0 < sp_overlap /\ sp_overlap < sp_size
    /\ \E i \in 1..(Len(sp_chunks) - 1) :
          ChunkLen(i) <= sp_overlap /\ 0 < Shared(i) /\ Shared(i) < sp_overlap

\* C19: the call on the empty text returns no chunk, and the call on a non-empty
\* text shorter than target_size returns one chunk, the text itself, whatever the
\* overlap.
C19_EmptyAndShort ==
    sp_pc = "done" =>
        /\ sp_text = <<>> => sp_chunks = <<>>
        /\ (sp_text # <<>> /\ Len(sp_text) < sp_size) =>
              /\ Len(sp_chunks) = 1
              /\ ChunkText(sp_text, sp_chunks[1]) = sp_text

\* C19 witness: a finished call on a text shorter than target_size that has a
\* separator among its last characters
C19_Witness ==
    /\ sp_pc = "done"
    /\ Len(sp_text) >= 3 /\ Len(sp_text) < sp_size
    /\ sp_text[Len(sp_text) - 1] = " "
    /\ sp_chunks = <<Span(0, Len(sp_text))>>

(***************************************************************************)
(* Properties of ingestion, checked under Spec (C13 under SpecMd).         *)
(***************************************************************************)
\* the child ids whose metadata names file f
ChildIdsOf(coll, f) == {id \in DOMAIN coll : coll[id].metadata.filename.val = f}
\* the parent ids whose payload names file f
ParentIdsOf(store, f) == {id \in DOMAIN store : store[id].filename = f}
\* the records of file f in the two stores
RecordsOf(coll, store, f) ==
    <<[id \in ChildIdsOf(coll, f) |-> coll[id]], [id \in ParentIdsOf(store, f) |-> store[id]]>>

HasRecords(f) == ChildIdsOf(collection, f) # {}

\* every parent chunk of `text` is in the Parent Store and every child chunk of
\* every parent is in the collection, under the ids of file f
FullyIndexedAs(f, text) ==
    LET doc_id == get_doc_id(f)
        parents == recursive_split(text, PARENT_CHUNK_SIZE, CHUNK_OVERLAP)
    IN  \A p \in 1..Len(parents) :
            LET parent_id == ParentId(doc_id, p - 1)
                p_text == ChunkText(text, parents[p])
                children == recursive_split(p_text, CHILD_CHUNK_SIZE, CHUNK_OVERLAP)
            IN  /\ parent_id \in DOMAIN doc_store
                /\ doc_store[parent_id].text = p_text
                /\ \A c \in 1..Len(children) :
                      /\ ChildId(parent_id, c - 1) \in DOMAIN collection
                      /\ collection[ChildId(parent_id, c - 1)].document =
                             ChunkText(p_text, children[c])

\* the text ingest extracts from file f as it is now, "" when there is none
CurrentText(f) ==
    LET text == ExtractText(f, dir[f].bytes)
    IN  IF Falsy(text) THEN <<>> ELSE text.val

\* file f was indexed in full from an earlier version of its bytes and now yields
\* another, non-empty text
ChangedSinceIndexed(f) ==
    /\ f \in DOMAIN dir /\ dir[f].isfile
    /\ CurrentText(f) # <<>>
    /\ \E old \in Contents \ {NoText, TextEmpty} :
          old # CurrentText(f) /\ FullyIndexedAs(f, old)

\* no run was killed and none raised so far
Uninterrupted == events.ended \subseteq {"done"}

C3_RerunSelfCorrects ==
    (Clean /\ Edits = 0 /\ events.ended \subseteq {"crashed", "done"}) =>
        \A f \in DOMAIN dir : HasRecords(f) => FullyIndexedAs(f, CurrentText(f))

\* C4 as claimed: an exception raised while one file is processed does not end
\* the run: a run in which an exception was raised has still taken every file of
\* the listing when it ends.
C4_PerFileIsolation ==
    \A t \in Threads : run[t].pc = "raised" => run[t].listing = {}

\* C5: in every state, interrupted runs included, the parent_id of every child
\* record resolves to a record of the Parent Store, and parents and children are
\* written in ascending part_index / child_index order.
C5_ChildHasParent ==
    /\ \A id \in DOMAIN collection :
          LET parent_id == collection[id].metadata.parent_id.val
          IN  /\ parent_id \in DOMAIN doc_store
              /\ doc_store[parent_id].parent_id = parent_id
              /\ id[1] = parent_id
              /\ \A c \in 0..(id[3] - 1) : ChildId(parent_id, c) \in DOMAIN collection
    /\ \A parent_id \in DOMAIN doc_store :
          \A p \in 0..(parent_id[3] - 1) : ParentId(parent_id[1], p) \in DOMAIN doc_store

\* C5 witness: a run was killed between two children of the second parent of a file
C5_Witness ==
    /\ run[1].pc = "crashed"
    /\ ChildId(ParentId(get_doc_id(FileA), 1), 0) \in DOMAIN collection
    /\ ChildId(ParentId(get_doc_id(FileA), 1), 1) \notin DOMAIN collection

\* the value the claim gives to an absent value under key k
DefaultFor(k) ==
    IF KeyStartsWithIs(k) THEN PyBool(FALSE)
    ELSE IF KeyHasIndexOrParts(k) THEN PyInt(-1)
    ELSE PyStr(<<>>)

NoNull(record) == \A k \in DOMAIN record : record[k].type # "NoneType"

\* C13: sanitize_metadata keeps every key, leaves every non-null value as it is
\* and replaces an absent value by false, -1 or "" according to its key, and no
\* metadata record of the collection holds a null value.
C13_NoNullMetadata ==
    /\ md_pc = "done" =>
          /\ DOMAIN md_clean = DOMAIN md_metadata
          /\ NoNull(md_clean)
          /\ \A k \in DOMAIN md_metadata :
                md_clean[k] = IF md_metadata[k] = PyNone THEN DefaultFor(k)
                              ELSE md_metadata[k]
    /\ \A id \in DOMAIN collection : NoNull(collection[id].metadata)
    /\ \A id \in DOMAIN gk_collection : NoNull(gk_collection[id].metadata)

\* C13 witness: a record with an absent value under a key that starts with "is_"
\* and contains "index", next to a non-null value, has been sanitized, and a child
\* without previous parent has been inserted
C13_Witness ==
    /\ md_pc = "done"
    /\ "is_index" \in DOMAIN md_metadata /\ md_metadata["is_index"] = PyNone
    /\ \E k \in DOMAIN md_metadata : md_metadata[k] # PyNone
    /\ \E id \in DOMAIN collection :
          collection[id].metadata["prev_parent_id"] = PyStr(<<>>)

\* file f is a regular file whose extractor fails or returns no text, or whose
\* extension ingestion does not read
Unreadable(f) ==
    /\ f \in DOMAIN dir /\ dir[f].isfile
    /\ \/ dir[f].bytes \in {NoText, TextEmpty}
       \/ Lower(f)[Len(f)] \notin {".pdf", ".docx", ".xlsx", ".xls"}

\* C14: the step of a run that takes such a file from the listing writes nothing
\* to the Parent Store or the collection and leaves the run at the head of its
\* loop, ready for the next file (unless the process is killed at that point).
C14_SkipsUnreadable ==
    [][\A t \in Threads, f \in FileNames :
          (/\ run[t].pc = "loop" /\ f \in run[t].listing
           /\ run'[t].pc # "crashed"
           /\ run'[t].listing = run[t].listing \ {f}
           /\ Unreadable(f)) =>
              /\ doc_store' = doc_store /\ collection' = collection
              /\ run'[t].pc = "loop"]_vars

\* C14 witness: a run has passed a file whose extractor failed and a file of an
\* unsupported extension, wrote nothing for them and is now indexing another file
C14_Witness ==
    /\ run[1].pc = "child" /\ run[1].filename = FileA
    /\ dir[FileB].bytes = NoText /\ Unreadable(FileB) /\ Unreadable(FileC)
    /\ FileB \notin run[1].listing /\ FileC \notin run[1].listing
    /\ ~HasRecords(FileB) /\ ~HasRecords(FileC)
    /\ ParentIdsOf(doc_store, FileB) = {} /\ ParentIdsOf(doc_store, FileC) = {}

\* C12 as claimed: once an ingest run has run to its end over a directory that
\* was never changed, every regular file that yields text, the statute file
\* included, has its child records in the collection the bot queries and its
\* parent records in the Parent Store.
C12_EveryKindIndexed ==
    (Clean /\ Uninterrupted /\ Edits = 0) =>
        \A f \in DOMAIN dir :
            (dir[f].isfile /\ CurrentText(f) # <<>>) =>
                HasRecords(f) /\ ParentIdsOf(doc_store, f) # {}

(***************************************************************************)
(* Properties of the statute splitters and of ingest_gk_only, checked      *)
(* under SpecGk.                                                           *)
(***************************************************************************)
\* the parent chunk whose children the call is inserting
GkParentText == gk_run.parent_chunks[gk_run.p_index + 1]
\* the call is inserting the children of an article
InArticle == gk_run.pc = "child" /\ gk_run.articles # <<>>

\* the numbered-paragraph lines of an article
ParagraphLines(article_text) ==
    {j \in 1..Len(SplitLines(article_text)) : ParagraphLine(SplitLines(article_text)[j])}

\* C11 as claimed: the child units of an article without numbered-paragraph line
\* are recursive_split(article_text, CHILD_CHUNK_SIZE, CHUNK_OVERLAP), each at
\* most CHILD_CHUNK_SIZE long.
C11_ArticleDegradesToSplitter ==
    (InArticle /\ ParagraphLines(GkParentText) = {}) =>
        /\ gk_run.child_chunks =
               SplitStrings(GkParentText, CHILD_CHUNK_SIZE, CHUNK_OVERLAP)
        /\ \A i \in 1..Len(gk_run.child_chunks) :
               Len(gk_run.child_chunks[i]) <= CHILD_CHUNK_SIZE

\* the text ingest_gk_only extracts from the statute file
GkText == CurrentText(FileGK)

\* every parent chunk of generic splitting is in the Parent Store and every child
\* chunk of every parent is in legal_gk, under the ids of the statute file
GkIndexedGeneric ==
    LET parents == SplitStrings(GkText, PARENT_CHUNK_SIZE, CHUNK_OVERLAP)
    IN  /\ Len(parents) >= 1
        /\ ParentIdsOf(doc_store, FileGK) =
               {ParentId(get_doc_id(FileGK), p - 1) : p \in 1..Len(parents)}
        /\ \A p \in 1..Len(parents) :
              LET parent_id == ParentId(get_doc_id(FileGK), p - 1)
                  children == SplitStrings(parents[p], CHILD_CHUNK_SIZE, CHUNK_OVERLAP)
              IN  /\ doc_store[parent_id].text = parents[p]
                  /\ Len(children) >= 1
                  /\ \A c \in 1..Len(children) :
                        /\ ChildId(parent_id, c - 1) \in DOMAIN gk_collection
                        /\ gk_collection[ChildId(parent_id, c - 1)].document = children[c]

\* C15: when the call has returned and the statute file has a non-empty text
\* without article heading, the file is indexed by generic splitting: at least
\* one parent, at least one child per parent.
C15_DegradesToGeneric ==
    (gk_run.pc = "done" /\ GkText # <<>> /\ HeadingStarts(GkText) = <<>>) =>
        GkIndexedGeneric

\* C15 witness: such a call has returned for a text that has a line with the
\* heading word but no heading, and that is longer than one parent chunk
C15_Witness ==
    /\ gk_run.pc = "done" /\ HeadingStarts(GkText) = <<>>
    /\ \E i \in 1..Len(GkText) : GkText[i] = Statya
    /\ Cardinality(ParentIdsOf(doc_store, FileGK)) >= 2
    /\ Cardinality(ChildIdsOf(gk_collection, FileGK)) >= 4

\* the span of the statute text from heading i up to heading i + 1, or to the end
\* of the text for the last heading
HeadingSpan(text, i) ==
    LET h == HeadingStarts(text)
    IN  Slice(text, h[i], IF i < Len(h) THEN h[i + 1] ELSE Len(text))

\* C16: when the call has returned and the statute text has n >= 1 article
\* headings, the Parent Store holds exactly n parents of the statute file, parent
\* i - 1 being the span of heading i with the white space at its ends removed;
\* every parent starts with its heading, so text before the first heading is in
\* no parent.
C16_OneParentPerArticle ==
    LET n == Len(HeadingStarts(GkText))
    IN  (gk_run.pc = "done" /\ n >= 1) =>
            /\ ParentIdsOf(doc_store, FileGK) =
                   {ParentId(get_doc_id(FileGK), i - 1) : i \in 1..n}
            /\ \A i \in 1..n :
                  LET unit == doc_store[ParentId(get_doc_id(FileGK), i - 1)].text
                  IN  /\ unit = Strip(HeadingSpan(GkText, i))
                      /\ unit[1] = Statya
                      /\ HeadingStarts(unit) = <<0>>

\* C16 witness: such a call has returned for a text with lines before the first
\* heading, two headings or more and a unit that ends before its span does
C16_Witness ==
    /\ gk_run.pc = "done"
    /\ Len(HeadingStarts(GkText)) >= 2
    /\ HeadingStarts(GkText)[1] > 0
    /\ Len(doc_store[ParentId(get_doc_id(FileGK), 0)].text) <
           Len(HeadingSpan(GkText, 1)) - 1

\* C17 as claimed: an article with at least one numbered-paragraph line has as
\* many child units as numbered-paragraph lines, the text before the first of them
\* being part of the first unit.
C17_OneChildPerParagraph ==
    (InArticle /\ ParagraphLines(GkParentText) # {}) =>
        Len(gk_run.child_chunks) = Cardinality(ParagraphLines(GkParentText))

(***************************************************************************)
(* Properties of the bot, checked under SpecRefresh, SpecChat and          *)
(* SpecChatLong.                                                           *)
(***************************************************************************)
\* C9 as claimed: overlapping requests of one session are serialized: once no
\* request of the chat is in flight, its history holds the exchanges of all its
\* completed requests in the order they completed, up to the length bound
\* (stated for chats that were never reset).
C9_HistorySerialized ==
    \A c \in Chats :
        (/\ \A i \in 1..Len(chat_log[c]) : chat_log[c][i].kind = "exchange"
         /\ \A r \in Requests : req[r].chat_id = c => ~Pending(r))
        => HistoryOf(c) = LastN(Exchanges(chat_log[c]), HISTORY_LIMIT)

\* C10 as claimed: the bot never has two ingest runs executing at the same time,
\* and two runs never process the same file.
C10_RefreshSerialized ==
    \A t1, t2 \in Threads :
        (t1 # t2 /\ Active(t1)) =>
            /\ ~Active(t2)
            /\ run[t1].filename = NoFile \/ run[t1].filename # run[t2].filename

\* C20: every history stored in user_histories has at most HISTORY_LIMIT entries,
\* and the history stored when an exchange completes is the longest suffix of at
\* most HISTORY_LIMIT entries of the handler's list with the exchange appended:
\* the oldest entries are dropped, the most recent ones kept in order.
C20_BoundedHistory ==
    [][\A c \in DOMAIN user_histories' :
          LET new == heap'[user_histories'[c]]
          IN  /\ Len(new) <= HISTORY_LIMIT
              /\ \A r \in Requests :
                    (req[r].pc = "awaiting" /\ req'[r].pc = "done" /\ req[r].chat_id = c) =>
                        LET appended == heap[req[r].history] \o
                                            <<UserEntry(r), AssistantEntry(r)>>
                            dropped == Len(appended) - Len(new)
                        IN  /\ Len(new) = Min(HISTORY_LIMIT, Len(appended))
                            /\ \A i \in 1..Len(new) : new[i] = appended[dropped + i]]_vars

\* C20 witness: two requests of a chat with a full history have completed, each
\* dropped the oldest exchange, and a third request has failed
C20_Witness ==
    /\ req[1].pc = "done" /\ req[2].pc = "done" /\ req[3].pc = "failed"
    /\ req[1].chat_id = "chat1" /\ req[2].chat_id = "chat1"
    /\ HistoryOf("chat1") =
           <<UserEntry(0), AssistantEntry(0), UserEntry(1), AssistantEntry(1),
             UserEntry(2), AssistantEntry(2)>>
    /\ user_histories["chat1"] = <<"slice", 2>>


(***************************************************************************)
(* Properties of the context assembly, checked under SpecCtx.              *)
(***************************************************************************)
\* C21: the context handed to the model is never empty: with no retrieved chunk
\* it is the one notice that there are no relevant documents; otherwise it is
\* one labeled block per retrieved chunk, in rank order, joined by the delimiter.
C21_ContextNeverEmpty ==
    ctx.pc = "done" =>
        LET n == Len(ctx.results)
        IN  /\ ctx.context_str # <<>>
            /\ n = 0 => ctx.context_str = NoDocumentsNotice
            /\ n > 0 =>
                  /\ Len(ctx.context_parts) = n
                  /\ \A k \in 1..n :
                        LET r == ctx.results[k]
                            label == SourceLabel(extract_case_number(r.filename))
                        IN  /\ label # <<>>
                            /\ ctx.context_parts[k] =
                                   <<"SOURCE_ID: [">> \o label
                                       \o <<"]", "\n", "CONTENT: ">> \o r.document
                  /\ ctx.context_str = JoinParts(ctx.context_parts)

\* C21 witness: a finished assembly over two retrieved chunks of different files
\* and documents, the delimiter between their two blocks
C21_Witness ==
    /\ ctx.pc = "done"
    /\ Len(ctx.results) = 2
    /\ ctx.results[1].document # ctx.results[2].document
    /\ ctx.results[1].filename # ctx.results[2].filename
    /\ ctx.context_str =
           ctx.context_parts[1] \o <<"\n", "\n", "---", "\n", "\n">> \o ctx.context_parts[2]


(***************************************************************************)
(* Failures and resets of the bot's handlers, checked under SpecChat and   *)
(* SpecChatLong.                                                           *)
(***************************************************************************)
\* C22: a request whose embedding or vector query raises ends with the apology
\* and changes nothing: neither its start nor its failure changes the stored
\* histories, the lists they refer to, or any other request, and the messages
\* received afterwards are handled as usual.
C22_RetrievalFailureHarmless ==
    [][\A r \in Requests :
          (\/ req[r].pc = "none" /\ req'[r].pc = "thinking"
           \/ req[r].pc = "thinking" /\ req'[r].pc = "retrieval_failed") =>
              /\ user_histories' = user_histories
              /\ \A c \in DOMAIN user_histories :
                     heap'[user_histories[c]] = heap[user_histories[c]]
              /\ \A q \in Requests \ {r} : req'[q] = req[q]
              /\ chat_log' = chat_log]_vars

\* C22 witness: the first request of a chat with a history failed in retrieval,
\* the history is what it was, and the next request of the chat was then
\* received and completed on top of it (and trimmed to HISTORY_LIMIT entries)
C22_Witness ==
    /\ req[1].pc = "retrieval_failed" /\ req[1].chat_id = "chat1"
    /\ req[2].pc = "done" /\ req[2].chat_id = "chat1"
    /\ received = 2
    /\ HistoryOf("chat1") =
           <<UserEntry(-1), AssistantEntry(-1), UserEntry(0), AssistantEntry(0),
             UserEntry(2), AssistantEntry(2)>>


\* C26 as claimed: once a reset of a chat has been handled, no exchange that
\* completed before the reset is in the chat's history at any later time, also
\* when a request of the chat was in flight at the reset and completes after it.
C26_ResetForgetsEarlier ==
    \A c \in Chats :
        \A k \in 1..Len(chat_log[c]) :
            chat_log[c][k].kind = "reset" =>
                \A j \in 1..(k - 1) :
                    chat_log[c][j].kind = "exchange" =>
                        \A e \in 1..Len(HistoryOf(c)) :
                            HistoryOf(c)[e].content # chat_log[c][j].msg

(***************************************************************************)
(* Properties of extract_case_number, checked under SpecCtx on the file    *)
(* names of the retrieved chunks.                                          *)
(***************************************************************************)
\* the name with a leading "Delo_" taken off
StripDeloPrefix(name) ==
    IF name # <<>> /\ name[1] = "Delo_" THEN Tail(name) ELSE name

\* the file name of the chunk the loop has just labeled
LabeledFile == ctx.results[ctx.i].filename
HasCaseMatch(filename) ==
    \E i \in 0..(Len(filename) - 1) : CaseMatches(filename, i)

\* C23 as claimed: for a file name that contains a match of the identifier
\* pattern extract_case_number returns that identifier (in upper case); for a
\* file name with no match it returns the name without its extension and with
\* the prefix "Delo_" stripped.
C23_CaseNumberOrStrippedName ==
    (ctx.pc = "loop" /\ ctx.i > 0) =>
        IF HasCaseMatch(LabeledFile)
        THEN \E i \in 0..(Len(LabeledFile) - 1) :
                /\ CaseMatches(LabeledFile, i)
                /\ ctx.case_number =
                       Upper(Slice(LabeledFile, i, CaseMatchEnd(LabeledFile, i)))
        ELSE ctx.case_number = StripDeloPrefix(SplitExtRoot(LabeledFile))

\* the two halves of C23 apart: the half about names with a match holds
C23_MatchHalf ==
    (ctx.pc = "loop" /\ ctx.i > 0 /\ HasCaseMatch(LabeledFile)) =>
        \E i \in 0..(Len(LabeledFile) - 1) :
            /\ CaseMatches(LabeledFile, i)
            /\ ctx.case_number =
                   Upper(Slice(LabeledFile, i, CaseMatchEnd(LabeledFile, i)))
\* and the half about names without a match holds for the names in which
\* "Delo_" occurs at the front only
C23_PrefixHalf ==
    (/\ ctx.pc = "loop" /\ ctx.i > 0 /\ ~HasCaseMatch(LabeledFile)
     /\ \A k \in 2..Len(LabeledFile) : LabeledFile[k] # "Delo_") =>
        ctx.case_number = StripDeloPrefix(SplitExtRoot(LabeledFile))


(***************************************************************************)
(* Further properties of ingest_documents, checked under Spec.             *)
(***************************************************************************)
\* two different regular files of the directory with the same bytes, from which
\* a text is extracted
SameBytes(f, g) ==
    /\ f # g
    /\ f \in DOMAIN dir /\ g \in DOMAIN dir
    /\ dir[f].isfile /\ dir[g].isfile
    /\ ~is_gk4_filename(f) /\ ~is_gk4_filename(g)
    /\ dir[f].bytes = dir[g].bytes
    /\ CurrentText(f) # <<>> /\ CurrentText(g) # <<>>

\* C24: content is not deduplicated across file names: the records of files of
\* different names never share a document id or a parent, and after a run over
\* a directory that holds two files with the same bytes under different names
\* each of the two is indexed in full under its own ids, whichever the run took
\* first.
C24_NoDedupAcrossNames ==
    /\ \A id \in DOMAIN collection :
          LET m == collection[id].metadata
          IN  /\ m.parent_id.val \in DOMAIN doc_store =>
                     doc_store[m.parent_id.val].filename = m.filename.val
              /\ \A other \in DOMAIN collection :
                     collection[other].metadata.filename # m.filename =>
                         collection[other].metadata.doc_id # m.doc_id
    /\ (Clean /\ Uninterrupted /\ runs_started = 1) =>
          \A f, g \in FileNames :
              SameBytes(f, g) =>
                  /\ FullyIndexedAs(f, CurrentText(f)) /\ HasRecords(f)
                  /\ FullyIndexedAs(g, CurrentText(g)) /\ HasRecords(g)
                  /\ ChildIdsOf(collection, f) \cap ChildIdsOf(collection, g) = {}
                  /\ ParentIdsOf(doc_store, f) \cap ParentIdsOf(doc_store, g) = {}

\* C24 witness: the first run has completed over a directory in which a.docx and
\* b.PDF hold the same two-parent text, and both have their records
C24_Witness ==
    /\ Clean /\ Uninterrupted /\ runs_started = 1
    /\ SameBytes(FileA, FileB)
    /\ dir[FileA].bytes = TextLong
    /\ HasRecords(FileA) /\ HasRecords(FileB)
    /\ Cardinality(ParentIdsOf(doc_store, FileA)) = 2
    /\ Cardinality(ParentIdsOf(doc_store, FileB)) = 2


(***************************************************************************)
(* The split-point rule of recursive_split, checked under SpecSplit.       *)
(***************************************************************************)
\* the positions at which sep occurs in text with all its characters in [lo, hi)
Occurrences(text, sep, lo, hi) ==
    {i \in lo..(hi - Len(sep)) : \A k \in 1..Len(sep) : text[i + k] = sep[k]}
Rightmost(S) == CHOOSE i \in S : \A j \in S : j <= i

\* the split point the rule gives for the window of target_size characters at lo
RuleSplit(text, target_size, lo) ==
    LET end == lo + target_size
        tail == end - (target_size \div 5)
        After(sep) == Rightmost(Occurrences(text, sep, tail, end)) + Len(sep)
        Has(sep) == Occurrences(text, sep, tail, end) # {}
    IN  IF Has(<<"\n", "\n">>) THEN After(<<"\n", "\n">>)
        ELSE IF Has(<<"\n">>) THEN After(<<"\n">>)
        ELSE IF Has(<<".", " ">>) THEN After(<<".", " ">>)
        ELSE IF Has(<<" ">>) THEN After(<<" ">>)
        ELSE end

\* C25: a window that does not reach the end of the text is cut right after the
\* right-most occurrence, inside the last 20% of the window, of the first of
\* paragraph break, line break, period-space and space that occurs entirely
\* there, and at the window boundary start + target_size when none does.
C25_SplitPointRule ==
    \A i \in 1..Len(sp_chunks) :
        sp_chunks[i].lo + sp_size < Len(sp_text) =>
            sp_chunks[i].hi = RuleSplit(sp_text, sp_size, sp_chunks[i].lo)

\* C25 witness: a finished call whose first window, of MaxChunk characters, has
\* a line break followed by a space in its last 20% and is cut after the line
\* break, not after the space that stands further right
C25_Witness ==
    /\ sp_pc = "done" /\ sp_size = MaxChunk
    /\ Len(sp_text) > sp_size
    /\ sp_text[sp_size - 1] = "\n" /\ sp_text[sp_size] = " "
    /\ sp_chunks[1] = Span(0, sp_size - 1)


\* the text file f has been indexed from in full, if any
IndexedTexts(f) ==
    {text \in Contents \ {NoText, TextEmpty} : HasRecords(f) /\ FullyIndexedAs(f, text)}

\* C27: once ingest_documents has finished a file with n parents, the links of
\* its children are consistent: every child has total_parts = n and
\* 0 <= part_index < n; prev_parent_id is empty on the children of part 0 and
\* next_parent_id on those of part n - 1; every other prev_parent_id and
\* next_parent_id is the id of the parent at part_index - 1 and part_index + 1
\* of the same document, and that parent is in the Parent Store.
C27_LinksConsistent ==
    \A f \in FileNames :
        \A text \in IndexedTexts(f) :
            LET n == Len(recursive_split(text, PARENT_CHUNK_SIZE, CHUNK_OVERLAP))
                Linked(link, q) ==
                    IF q < 0 \/ q >= n THEN link = PyStr(<<>>)
                    ELSE /\ link = PyStr(<<(<<"md5", f>>), "_", q>>)
                         /\ link.val \in DOMAIN doc_store
                         /\ doc_store[link.val].part_index = q
                         /\ doc_store[link.val].filename = f
            IN  \A id \in ChildIdsOf(collection, f) :
                    LET m == collection[id].metadata
                    IN  /\ m.total_parts = PyInt(n)
                        /\ m.part_index.type = "int"
                        /\ m.part_index.val \in 0..(n - 1)
                        /\ Linked(m.prev_parent_id, m.part_index.val - 1)
                        /\ Linked(m.next_parent_id, m.part_index.val + 1)

\* C27 witness: a run has finished a.docx, a text of two parents: a child of part
\* 0 has no previous parent and links to part 1, a child of part 1 links back to
\* part 0 and has no next parent
C27_Witness ==
    /\ run[1].pc = "done"
    /\ TextLong \in IndexedTexts(FileA)
    /\ \E a, b \in ChildIdsOf(collection, FileA) :
          /\ collection[a].metadata.part_index = PyInt(0)
          /\ collection[a].metadata.prev_parent_id = PyStr(<<>>)
          /\ collection[a].metadata.next_parent_id = collection[b].metadata.parent_id
          /\ collection[b].metadata.part_index = PyInt(1)
          /\ collection[b].metadata.prev_parent_id = collection[a].metadata.parent_id
          /\ collection[b].metadata.next_parent_id = PyStr(<<>>)


=============================================================================
